---------------------------- MODULE Spec2Model ----------------------------
(***************************************************************************)
(* A model of src/app.py, the Streamlit "NLP Text Processor": the text     *)
(* cleaning function clean_text, the webpage extractor scrape_webpage, the *)
(* five-stage pipeline preprocess_text, the start-up download of the NLTK  *)
(* data, and the module-level script that Streamlit re-runs after every    *)
(* widget interaction.                                                     *)
(*                                                                         *)
(* A Python str is a sequence of characters; a character is a one-letter   *)
(* TLA+ string, or the name "U+XXXX" of a non-ASCII code point.            *)
(***************************************************************************)
EXTENDS Integers, Sequences, FiniteSets, TLC

VARIABLES
    pc,             \* where the modelled run stands
    doc,            \* clean_text: the document given to it
    cleaned,        \* clean_text(doc)
    recleaned,      \* clean_text(clean_text(doc))
    nltk_build,     \* which NLTK is installed: it decides the data it loads
    nltk_data,      \* the NLTK data packages present on the machine
    corpus,         \* the list of documents given to preprocess_text
    result,         \* what preprocess_text returned, or that it raised
    url,            \* scrape_webpage: the URL given to it
    response,       \* what the web answers to the request for that URL
    scraped,        \* what scrape_webpage returned, or that it raised
    widgets,        \* the session's widget values, as Streamlit keeps them
    shown,          \* the buttons the last script run rendered
    event           \* the interaction that triggered the last script run

cleanVars == <<doc, cleaned, recleaned>>
pipeVars == <<nltk_build, nltk_data, corpus, result>>
scrapeVars == <<url, response, scraped>>
appVars == <<widgets, shown, event>>
vars == <<pc, cleanVars, pipeVars, scrapeVars, appVars>>

(***************************************************************************)
(* Bounds of the model.                                                    *)
(***************************************************************************)
\* longest document drawn exhaustively over EnumChars
MaxLen == 4
\* most documents in a corpus given to preprocess_text
MaxDocs == 2

(***************************************************************************)
(* Characters and their classes, as Python's str and re see them.          *)
(***************************************************************************)
\* "abc" as the sequence <<"a", "b", "c">>
Chars(s) == [i \in 1..Len(s) |-> SubSeq(s, i, i)]

\* set of the elements of a sequence
Range(s) == {s[i] : i \in 1..Len(s)}

UpperSeq == Chars("ABCDEFGHIJKLMNOPQRSTUVWXYZ")
LowerSeq == Chars("abcdefghijklmnopqrstuvwxyz")
AsciiLetters == Range(UpperSeq) \cup Range(LowerSeq)
AsciiDigits == Range(Chars("0123456789"))

\* string.punctuation, 32 characters; the grave accent is written "U+0060"
punctuation == Range(Chars("!\"#$%&'()*+,-./:;<=>?@[\\]^_{|}~")) \cup {"U+0060"}

\* characters matched by \s
Whitespace == {" ", "\n", "\t"}

\* The non-ASCII code points of the model:
\*   U+0130  LATIN CAPITAL LETTER I WITH DOT ABOVE: a letter; str.lower() gives
\*           the two characters "i" U+0307
\*   U+0307  COMBINING DOT ABOVE: category Mn, matched by \W, not by \s
\*   U+00E9  LATIN SMALL LETTER E WITH ACUTE: a lowercase letter
\*   U+00B2  SUPERSCRIPT TWO: category No; matched by \w, not by \d
\*   U+0663  ARABIC-INDIC DIGIT THREE: category Nd, matched by \d
NonAscii == {"U+0130", "U+0307", "U+00E9", "U+00B2", "U+0663"}

Alphabet == AsciiLetters \cup AsciiDigits \cup punctuation \cup Whitespace \cup NonAscii

\* characters matched by \d (Unicode category Nd)
DecimalDigits == AsciiDigits \cup {"U+0663"}

\* characters matched by \w: str.isalnum() or "_"
WordChars == AsciiLetters \cup DecimalDigits \cup {"_", "U+0130", "U+00E9", "U+00B2"}

\* characters matched by \W
NonWordChars == Alphabet \ WordChars

\* str.lower() of one character
CharLower(c) ==
    IF c \in Range(UpperSeq)
    THEN <<LowerSeq[CHOOSE i \in 1..Len(UpperSeq) : UpperSeq[i] = c]>>
    ELSE IF c = "U+0130" THEN <<"i", "U+0307">>
    ELSE <<c>>

\* str.lower()
RECURSIVE lower(_)
lower(text) ==
    IF text = <<>> THEN <<>> ELSE CharLower(Head(text)) \o lower(Tail(text))

\* the rest of text after its longest prefix of characters of class
RECURSIVE DropRun(_, _)
DropRun(text, class) ==
    IF text # <<>> /\ Head(text) \in class THEN DropRun(Tail(text), class) ELSE text

\* re.sub(r'[class]+', repl, text): every maximal run of characters of class
\* is replaced by repl
RECURSIVE re_sub(_, _, _)
re_sub(class, repl, text) ==
    IF text = <<>> THEN <<>>
    ELSE IF Head(text) \in class
         THEN repl \o re_sub(class, repl, DropRun(text, class))
         ELSE <<Head(text)>> \o re_sub(class, repl, Tail(text))

\* text.translate(str.maketrans('', '', string.punctuation))
translate(text) == SelectSeq(text, LAMBDA c : c \notin punctuation)

\* str.strip(): leading and trailing whitespace removed
RECURSIVE rstrip(_)
rstrip(text) ==
    IF text # <<>> /\ text[Len(text)] \in Whitespace
    THEN rstrip(SubSeq(text, 1, Len(text) - 1))
    ELSE text

strip(text) == rstrip(DropRun(text, Whitespace))

\* index of the first ">" of text at or after position i, 0 when there is none
RECURSIVE FindGt(_, _)
FindGt(text, i) ==
    IF i > Len(text) THEN 0
    ELSE IF text[i] = ">" THEN i
    ELSE FindGt(text, i + 1)

\* BeautifulSoup(text, "html.parser").get_text(): the text nodes of the markup.
\* html.parser takes "<" followed by a letter (a start tag), by "/" and a letter
\* (an end tag) or by "!" (a comment or declaration) as markup up to the next
\* ">"; a "<" that opens nothing, or whose ">" never comes, is text.
RECURSIVE get_text(_)
get_text(text) ==
    IF text = <<>> THEN <<>>
    ELSE IF Head(text) = "<"
         THEN LET opens ==
                     /\ Len(text) >= 2
                     /\ \/ text[2] \in AsciiLetters
                        \/ text[2] = "!"
                        \/ text[2] = "/" /\ Len(text) >= 3 /\ text[3] \in AsciiLetters
                  gt == FindGt(text, 2)
              IN  IF opens /\ gt > 0
                  THEN get_text(SubSeq(text, gt + 1, Len(text)))
                  ELSE <<"<">> \o get_text(Tail(text))
         ELSE <<Head(text)>> \o get_text(Tail(text))

\* clean_text with the punctuation step left out
clean_text_no_translate(text) ==
    strip(get_text(re_sub(Whitespace, <<" ">>,
        re_sub(NonWordChars, <<" ">>,
            re_sub(DecimalDigits, <<>>, lower(text))))))

\* clean_text with the lowercasing moved from the first step to the last
clean_text_lower_last(text) ==
    lower(strip(get_text(re_sub(Whitespace, <<" ">>,
        re_sub(NonWordChars, <<" ">>,
            translate(re_sub(DecimalDigits, <<>>, text)))))))

\* clean_text (src/app.py:115-123)
clean_text(text) ==
    LET t1 == lower(text)                            \* text.lower()
        t2 == re_sub(DecimalDigits, <<>>, t1)        \* re.sub(r'\d+', '', text)
        t3 == translate(t2)                          \* delete string.punctuation
        t4 == re_sub(NonWordChars, <<" ">>, t3)      \* re.sub(r'\W+', ' ', text)
        t5 == re_sub(Whitespace, <<" ">>, t4)        \* re.sub(r'\s+', ' ', text)
        t6 == get_text(t5)                           \* BeautifulSoup(...).get_text()
    IN  strip(t6)

(***************************************************************************)
(* Documents.                                                              *)
(***************************************************************************)
\* the characters the documents of length <= MaxLen are drawn from
EnumChars == {"a", "T", "1", ".", "_", " ", "<", "U+0130"}

BoundedDocs == UNION {[1..n -> EnumChars] : n \in 0..MaxLen}

\* the scenario of the specification's section 8
ScenarioDoc == Chars("The quick brown foxes are running and jumping over lazy dogs 123!")

MarkupDoc == Chars("<b>hi</b>")

SampleDocs ==
    { ScenarioDoc, MarkupDoc,
      Chars("<p class=\"x\">Hello World</p>"),
      Chars("a 1 b"), Chars("x\t\ny"), Chars("a < b"),
      <<"c", "a", "f", "U+00E9", " ", "U+0663", "U+00B2">> }

CleanDocs == BoundedDocs \cup SampleDocs

(***************************************************************************)
(* NLTK: the data packages, the tokenizer, the stop words, the stemmer and *)
(* the lemmatizer.                                                         *)
(***************************************************************************)
\* the names download_nltk_data asks for (src/app.py:18-24)
downloads == {"punkt_tab", "punkt", "stopwords", "wordnet", "omw-1.4"}

\* The installed NLTK decides which packages a call loads: before 3.8.2
\* word_tokenize loads tokenizers/punkt and the WordNet reader opens omw-1.4
\* with wordnet; from 3.8.2 on word_tokenize loads tokenizers/punkt_tab and
\* the reader needs wordnet alone.
NltkBuilds == {"punkt", "punkt_tab"}

TokenizerData(build) == {build}

LemmatizerData(build) == IF build = "punkt" THEN {"wordnet", "omw-1.4"} ELSE {"wordnet"}

\* text ends with suf
EndsWith(text, suf) ==
    /\ Len(text) >= Len(suf)
    /\ SubSeq(text, Len(text) - Len(suf) + 1, Len(text)) = suf

\* text starts with pre (str.startswith)
StartsWith(text, pre) ==
    /\ Len(text) >= Len(pre)
    /\ SubSeq(text, 1, Len(pre)) = pre

\* text without its last n characters
DropLast(text, n) == SubSeq(text, 1, Len(text) - n)

\* the longest prefix of text without whitespace
RECURSIVE TakeWord(_)
TakeWord(text) ==
    IF text = <<>> \/ Head(text) \in Whitespace THEN <<>>
    ELSE <<Head(text)>> \o TakeWord(Tail(text))

\* str.split(): the maximal runs of non-whitespace characters
RECURSIVE split(_)
split(text) ==
    LET rest == DropRun(text, Whitespace)
        word == TakeWord(rest)
    IN  IF rest = <<>> THEN <<>>
        ELSE <<word>> \o split(SubSeq(rest, Len(word) + 1, Len(rest)))

\* The contractions without an apostrophe that NLTK's Treebank tokenizer
\* splits in two (CONTRACTIONS2, matched as whole words, any case).
Contractions2 ==
    { <<Chars("can"), Chars("not")>>, <<Chars("gim"), Chars("me")>>,
      <<Chars("gon"), Chars("na")>>, <<Chars("got"), Chars("ta")>>,
      <<Chars("lem"), Chars("me")>>, <<Chars("wan"), Chars("na")>> }

\* the tokens of one whitespace-delimited word
TreebankWord(word) ==
    IF \E c \in Contractions2 : lower(word) = c[1] \o c[2]
    THEN LET c == CHOOSE c \in Contractions2 : lower(word) = c[1] \o c[2]
         IN  <<SubSeq(word, 1, Len(c[1])), SubSeq(word, Len(c[1]) + 1, Len(word))>>
    ELSE <<word>>

RECURSIVE Flatten(_)
Flatten(ss) == IF ss = <<>> THEN <<>> ELSE Head(ss) \o Flatten(Tail(ss))

\* nltk.word_tokenize on a cleaned document, which holds word characters and
\* single spaces only: no sentence or punctuation boundary is left in it, and
\* the tokens are its words, the contractions split.
word_tokenize(text) ==
    LET words == split(text)
    IN  Flatten([i \in 1..Len(words) |-> TreebankWord(words[i])])

\* stopwords.words('english'), the words without an apostrophe ...
StopWordsPlain ==
    { "i", "me", "my", "myself", "we", "our", "ours", "ourselves", "you", "your",
      "yours", "yourself", "yourselves", "he", "him", "his", "himself", "she",
      "her", "hers", "herself", "it", "its", "itself", "they", "them", "their",
      "theirs", "themselves", "what", "which", "who", "whom", "this", "that",
      "these", "those", "am", "is", "are", "was", "were", "be", "been", "being",
      "have", "has", "had", "having", "do", "does", "did", "doing", "a", "an",
      "the", "and", "but", "if", "or", "because", "as", "until", "while", "of",
      "at", "by", "for", "with", "about", "against", "between", "into",
      "through", "during", "before", "after", "above", "below", "to", "from",
      "up", "down", "in", "out", "on", "off", "over", "under", "again",
      "further", "then", "once", "here", "there", "when", "where", "why", "how",
      "all", "any", "both", "each", "few", "more", "most", "other", "some",
      "such", "no", "nor", "not", "only", "own", "same", "so", "than", "too",
      "very", "s", "t", "can", "will", "just", "don", "should", "now", "d", "ll",
      "m", "o", "re", "ve", "y", "ain", "aren", "couldn", "didn", "doesn",
      "hadn", "hasn", "haven", "isn", "ma", "mightn", "mustn", "needn", "shan",
      "shouldn", "wasn", "weren", "won", "wouldn" }

\* ... and those with one
StopWordsApostrophe ==
    { "you're", "you've", "you'll", "you'd", "she's", "it's", "that'll", "don't",
      "should've", "aren't", "couldn't", "didn't", "doesn't", "hadn't", "hasn't",
      "haven't", "isn't", "mightn't", "mustn't", "needn't", "shan't",
      "shouldn't", "wasn't", "weren't", "won't", "wouldn't" }

\* set(stopwords.words('english'))
stop_words == {Chars(w) : w \in StopWordsPlain \cup StopWordsApostrophe}

Vowels == Range(Chars("aeiou"))

\* Porter: a letter is a consonant unless it is a, e, i, o, u, or a y that
\* follows a consonant
RECURSIVE IsConsonant(_, _)
IsConsonant(word, i) ==
    IF word[i] \in Vowels THEN FALSE
    ELSE IF word[i] = "y" THEN (i = 1 \/ ~IsConsonant(word, i - 1))
    ELSE TRUE

ContainsVowel(st) == \E i \in 1..Len(st) : ~IsConsonant(st, i)

\* Porter's measure m: the number of vowel-consonant sequences of the stem
Measure(st) ==
    Cardinality({i \in 1..(Len(st) - 1) : ~IsConsonant(st, i) /\ IsConsonant(st, i + 1)})

EndsDoubleConsonant(st) ==
    /\ Len(st) >= 2
    /\ st[Len(st)] = st[Len(st) - 1]
    /\ IsConsonant(st, Len(st))

\* Porter's *o: the stem ends consonant-vowel-consonant, the last not w, x, y
\* (NLTK also takes a two-letter stem vowel-consonant)
EndsCvc(st) ==
    \/ /\ Len(st) >= 3
       /\ IsConsonant(st, Len(st) - 2)
       /\ ~IsConsonant(st, Len(st) - 1)
       /\ IsConsonant(st, Len(st))
       /\ st[Len(st)] \notin {"w", "x", "y"}
    \/ /\ Len(st) = 2
       /\ ~IsConsonant(st, 1)
       /\ IsConsonant(st, 2)

step1a(word) ==
    IF EndsWith(word, Chars("ies")) /\ Len(word) = 4 THEN DropLast(word, 3) \o Chars("ie")
    ELSE IF EndsWith(word, Chars("sses")) THEN DropLast(word, 2)
    ELSE IF EndsWith(word, Chars("ies")) THEN DropLast(word, 2)
    ELSE IF EndsWith(word, Chars("ss")) THEN word
    ELSE IF EndsWith(word, Chars("s")) THEN DropLast(word, 1)
    ELSE word

\* what step 1b does to the stem left by removing -ed or -ing
step1b_fix(st) ==
    IF EndsWith(st, Chars("at")) \/ EndsWith(st, Chars("bl")) \/ EndsWith(st, Chars("iz"))
    THEN st \o <<"e">>
    ELSE IF EndsDoubleConsonant(st) /\ st[Len(st)] \notin {"l", "s", "z"}
    THEN DropLast(st, 1)
    ELSE IF Measure(st) = 1 /\ EndsCvc(st) THEN st \o <<"e">>
    ELSE st

step1b(word) ==
    IF EndsWith(word, Chars("ied"))
    THEN DropLast(word, 3) \o (IF Len(word) = 4 THEN Chars("ie") ELSE Chars("i"))
    ELSE IF EndsWith(word, Chars("eed"))
    THEN IF Measure(DropLast(word, 3)) > 0 THEN DropLast(word, 1) ELSE word
    ELSE IF EndsWith(word, Chars("ed"))
    THEN IF ContainsVowel(DropLast(word, 2)) THEN step1b_fix(DropLast(word, 2)) ELSE word
    ELSE IF EndsWith(word, Chars("ing"))
    THEN IF ContainsVowel(DropLast(word, 3)) THEN step1b_fix(DropLast(word, 3)) ELSE word
    ELSE word

step1c(word) ==
    IF /\ EndsWith(word, Chars("y"))
       /\ Len(word) > 2
       /\ IsConsonant(word, Len(word) - 1)
    THEN DropLast(word, 1) \o <<"i">>
    ELSE word

\* PorterStemmer().stem(word): the word lowercased; a word of at most two
\* letters is returned as it is; steps 1a, 1b and 1c of the algorithm.  Steps
\* 2 to 5 rewrite longer derivational suffixes (-ational, -iveness, -ement,
\* a final -e) in the same way, one word in and one word out.
stem(word) ==
    LET w == lower(word)
    IN  IF Len(w) <= 2 THEN w ELSE step1c(step1b(step1a(w)))

\* WordNet's noun lemmas, those a word of the model's documents can reach
WordNetNouns ==
    {Chars(w) : w \in { "fox", "dog", "cat", "man", "foot", "quick", "brown",
                        "running", "jumping", "run", "jump", "wa", "hello",
                        "world", "page", "news", "title", "heading", "web" }}

\* WordNet's noun exception list (noun.exc), an excerpt
NounExceptions == { <<Chars("men"), Chars("man")>>, <<Chars("feet"), Chars("foot")>> }

\* WordNet's detachment rules for nouns, in its order
NounRules ==
    << <<Chars("s"), <<>> >>, <<Chars("ses"), Chars("s")>>, <<Chars("ves"), Chars("f")>>,
       <<Chars("xes"), Chars("x")>>, <<Chars("zes"), Chars("z")>>,
       <<Chars("ches"), Chars("ch")>>, <<Chars("shes"), Chars("sh")>>,
       <<Chars("men"), Chars("man")>>, <<Chars("ies"), Chars("y")>> >>

\* morphy's apply_rules on one form
ApplyRules(form) ==
    LET hit == SelectSeq(NounRules, LAMBDA r : EndsWith(form, r[1]))
    IN  [i \in 1..Len(hit) |-> DropLast(form, Len(hit[i][1])) \o hit[i][2]]

\* morphy's filter_forms: the forms WordNet knows, in order
FilterForms(forms) == SelectSeq(forms, LAMBDA f : f \in WordNetNouns)

\* morphy's loop: the rules applied again while no known form is found
RECURSIVE MorphyLoop(_)
MorphyLoop(forms) ==
    IF forms = <<>> THEN <<>>
    ELSE LET next == Flatten([i \in 1..Len(forms) |-> ApplyRules(forms[i])])
         IN  IF FilterForms(next) # <<>> THEN FilterForms(next) ELSE MorphyLoop(next)

\* wordnet._morphy(form, 'n')
morphy(form) ==
    IF \E e \in NounExceptions : e[1] = form
    THEN FilterForms(<<form, (CHOOSE e \in NounExceptions : e[1] = form)[2]>>)
    ELSE LET forms == ApplyRules(form)
         IN  IF FilterForms(<<form>> \o forms) # <<>>
             THEN FilterForms(<<form>> \o forms)
             ELSE MorphyLoop(forms)

\* the first shortest element of a non-empty sequence: min(lemmas, key=len)
MinByLen(ss) ==
    ss[CHOOSE i \in 1..Len(ss) :
          /\ \A j \in 1..Len(ss) : Len(ss[i]) <= Len(ss[j])
          /\ \A j \in 1..(i - 1) : Len(ss[j]) > Len(ss[i])]

\* WordNetLemmatizer().lemmatize(word): the noun lemma, or the word itself
lemmatize(word) ==
    LET lemmas == morphy(word)
    IN  IF lemmas = <<>> THEN word ELSE MinByLen(lemmas)

(***************************************************************************)
(* preprocess_text (src/app.py:195-233).                                   *)
(***************************************************************************)
\* Keeps with "or" for "and"
KeepsEither(word, stops) == word \notin stops \/ Len(word) > 2

\* the condition of the comprehension of line 214, with the stop words given
Keeps(word, stops) == word \notin stops /\ Len(word) > 2

\* a call that raised
Raised(what) ==
    [raised |-> what, cleaned |-> <<>>, tokenized |-> <<>>, filtered |-> <<>>,
     stemmed |-> <<>>, lemmatized |-> <<>>]

\* [word for word in doc if word not in stop_words and len(word) > 2]
keep(tokens, stops) == SelectSeq(tokens, LAMBDA word : Keeps(word, stops))

\* [stemmer.stem(word) for word in doc]
stems(tokens) == [k \in 1..Len(tokens) |-> stem(tokens[k])]

\* [lemmatizer.lemmatize(word) for word in doc]
lemmas(tokens) == [k \in 1..Len(tokens) |-> lemmatize(tokens[k])]

\* the five corpora of lines 203-226 for the documents docs
five_corpora(docs) ==
    LET cleaned_corpus == [i \in 1..Len(docs) |-> clean_text(docs[i])]
        tokenized_corpus == [i \in 1..Len(docs) |-> word_tokenize(cleaned_corpus[i])]
        filtered_corpus == [i \in 1..Len(docs) |-> keep(tokenized_corpus[i], stop_words)]
    IN  [raised |-> "", cleaned |-> cleaned_corpus, tokenized |-> tokenized_corpus,
         filtered |-> filtered_corpus,
         stemmed |-> [i \in 1..Len(docs) |-> stems(filtered_corpus[i])],
         lemmatized |-> [i \in 1..Len(docs) |-> lemmas(filtered_corpus[i])]]

\* the first call of lines 203-226 that finds its data missing raises
\* LookupError: word_tokenize loads its data when called, once per document;
\* stopwords.words loads the stop words; the lemmatizer loads WordNet at its
\* first lemmatize call; the stemmer needs no data
lookup_fails(docs, build, data) ==
    \/ docs # <<>> /\ ~(TokenizerData(build) \subseteq data)              \* line 208
    \/ "stopwords" \notin data                                            \* line 213
    \/ /\ \E i \in 1..Len(docs) : five_corpora(docs).filtered[i] # <<>>   \* line 226
       /\ ~(LemmatizerData(build) \subseteq data)

\* preprocess_text whose first comprehension skips the empty documents
preprocess_skip_empty(docs, build, data) ==
    IF lookup_fails(docs, build, data)
    THEN Raised("LookupError")
    ELSE five_corpora(SelectSeq(docs, LAMBDA d : d # <<>>))

\* preprocess_text(corpus) under the installed NLTK and its data: the five
\* corpora returned, or the LookupError raised
preprocess_text(docs, build, data) ==
    IF lookup_fails(docs, build, data)
    THEN Raised("LookupError")
    ELSE five_corpora(docs)

\* nothing returned yet
NoResult == Raised("not called")

(***************************************************************************)
(* clean_text applied once, then again to its own result.                  *)
(***************************************************************************)
(***************************************************************************)
(* scrape_webpage (src/app.py:126-192).                                    *)
(*                                                                         *)
(* A parsed page is its <title> (a sequence holding the title's text, or   *)
(* the empty sequence when the page has no <title>) and its other elements *)
(* in document order, each with its tag, the index of its parent (0 at the *)
(* top of the document), its class attribute and the text directly in it.  *)
(***************************************************************************)
\* text contains part (the "in" of two strings, re.search of a literal)
Contains(text, part) ==
    \E i \in 1..(Len(text) - Len(part) + 1) : SubSeq(text, i, i + Len(part) - 1) = part

\* sep.join(parts)
RECURSIVE join(_, _)
join(sep, parts) ==
    IF parts = <<>> THEN <<>>
    ELSE IF Len(parts) = 1 THEN parts[1]
    ELSE parts[1] \o sep \o join(sep, Tail(parts))

\* the characters a URL scheme is made of
SchemeChars == AsciiLetters \cup AsciiDigits \cup {"+", "-", "."}

\* index of the first character of text in set, 0 when there is none
RECURSIVE FindIn(_, _, _)
FindIn(text, set, i) ==
    IF i > Len(text) THEN 0
    ELSE IF text[i] \in set THEN i
    ELSE FindIn(text, set, i + 1)

\* urlparse(url), its scheme and netloc: the scheme is what stands before the
\* first ":" when that starts with a letter and holds scheme characters only;
\* the netloc is what follows a "//" after it, up to the next "/", "?" or "#"
urlparse(u) ==
    LET colon == FindIn(u, {":"}, 1)
        has == /\ colon > 1
               /\ u[1] \in AsciiLetters
               /\ \A k \in 1..(colon - 1) : u[k] \in SchemeChars
        rest == IF has THEN SubSeq(u, colon + 1, Len(u)) ELSE u
        after == SubSeq(rest, 3, Len(rest))
        stop == FindIn(after, {"/", "?", "#"}, 1)
    IN  [scheme |-> IF has THEN lower(SubSeq(u, 1, colon - 1)) ELSE <<>>,
         netloc |-> IF StartsWith(rest, Chars("//"))
                    THEN (IF stop = 0 THEN after ELSE SubSeq(after, 1, stop - 1))
                    ELSE <<>>]

\* the URL the request is sent to (lines 135-137)
FetchUrl(u) == IF urlparse(u).scheme = <<>> THEN Chars("https://") \o u ELSE u

\* requests.get can send the request: requests has an adapter for http and
\* https only, and needs a host
Fetchable(u) ==
    /\ urlparse(u).scheme \in {Chars("http"), Chars("https")}
    /\ urlparse(u).netloc # <<>>

\* element j is element r or lies inside it
RECURSIVE InSubtree(_, _, _)
InSubtree(nodes, j, r) ==
    \/ j = r
    \/ nodes[j].parent # 0 /\ InSubtree(nodes, nodes[j].parent, r)

\* the elements decomposed at lines 145-146
Stripped == {"script", "style", "nav", "footer", "header"}

\* element j is gone after the decompose loop
Decomposed(nodes, j) ==
    \E r \in 1..Len(nodes) : nodes[r].tag \in Stripped /\ InSubtree(nodes, j, r)

\* the indices of set in increasing order
RECURSIVE Ascending(_)
Ascending(set) ==
    IF set = {} THEN <<>>
    ELSE LET m == CHOOSE x \in set : \A y \in set : x <= y
         IN  <<m>> \o Ascending(set \ {m})

\* tag.get_text() of element j of the stripped tree
node_text(nodes, j) ==
    LET inside == Ascending({k \in 1..Len(nodes) :
                                ~Decomposed(nodes, k) /\ InSubtree(nodes, k, j)})
    IN  Flatten([i \in 1..Len(inside) |-> nodes[inside[i]].text])

\* the least element of a set of indices, 0 (None) for the empty set
First(hits) == IF hits = {} THEN 0 ELSE CHOOSE j \in hits : \A k \in hits : j <= k

\* soup.find(tag): the first element with that tag left in the tree, 0 for None
find(nodes, tag) ==
    First({j \in 1..Len(nodes) : ~Decomposed(nodes, j) /\ nodes[j].tag = tag})

\* re.compile(r'content|main|article', re.I) finds a match in the class
ContentClass(cls) ==
    \E w \in {Chars("content"), Chars("main"), Chars("article")} : Contains(lower(cls), w)

\* soup.find('div', class_=re.compile(r'content|main|article', re.I))
find_content_div(nodes) ==
    First({j \in 1..Len(nodes) :
              ~Decomposed(nodes, j) /\ nodes[j].tag = "div" /\ ContentClass(nodes[j].cls)})

\* lines 159-164: the first of these that is not None
main_content(nodes) ==
    IF find(nodes, "main") # 0 THEN find(nodes, "main")
    ELSE IF find(nodes, "article") # 0 THEN find(nodes, "article")
    ELSE IF find_content_div(nodes) # 0 THEN find_content_div(nodes)
    ELSE find(nodes, "body")

Headings == {"h1", "h2", "h3", "h4"}

\* int(tag.name[1])
HeadingLevel(tag) == CASE tag = "h1" -> 1 [] tag = "h2" -> 2 [] tag = "h3" -> 3 [] tag = "h4" -> 4

\* line 172
MinTextLen == 10
\* line 184
MinWords == 5

BoilerplateMarkers ==
    {Chars("cookie"), Chars("advertisement"), Chars("subscribe"), Chars("newsletter")}

HeadingBlacklist == {Chars("menu"), Chars("navigation"), Chars("footer")}

\* the loop body with "<=" for "<" in the length test
blocks_of_le(tag, text) ==
    IF Len(text) <= MinTextLen THEN <<>>
    ELSE IF \E w \in BoilerplateMarkers : Contains(lower(text), w) THEN <<>>
    ELSE IF tag \in Headings
    THEN IF text # <<>> /\ ~\E w \in HeadingBlacklist : StartsWith(lower(text), w)
         THEN <<[i \in 1..HeadingLevel(tag) |-> "#"] \o <<" ">> \o text>>
         ELSE <<>>
    ELSE IF tag \in {"p", "div"} /\ text # <<>> /\ Len(split(text)) > MinWords
    THEN <<text>>
    ELSE <<>>

\* the body of the loop of line 168 for one tag with its stripped text (lines
\* 169-185): the block appended to content, if any
blocks_of(tag, text) ==
    IF Len(text) < MinTextLen THEN <<>>
    ELSE IF \E w \in BoilerplateMarkers : Contains(lower(text), w) THEN <<>>
    ELSE IF tag \in Headings
    THEN IF text # <<>> /\ ~\E w \in HeadingBlacklist : StartsWith(lower(text), w)
         THEN <<[i \in 1..HeadingLevel(tag) |-> "#"] \o <<" ">> \o text>>
         ELSE <<>>
    ELSE IF tag \in {"p", "div"} /\ text # <<>> /\ Len(split(text)) > MinWords
    THEN <<text>>
    ELSE <<>>

\* main_content.find_all(['h1', 'h2', 'h3', 'h4', 'p', 'div']): the elements
\* inside the content root, in document order
find_all(nodes, root) ==
    Ascending({j \in 1..Len(nodes) :
                  /\ j # root
                  /\ ~Decomposed(nodes, j)
                  /\ InSubtree(nodes, j, root)
                  /\ nodes[j].tag \in Headings \cup {"p", "div"}})

\* lines 150-155: parsed_url is urlparse of the URL as it was given; a Tag is
\* true whatever it holds
title_block(u, page) ==
    IF page.title # <<>>
    THEN Chars("# ") \o strip(page.title[1])
    ELSE Chars("# Scraped Content from ") \o urlparse(u).netloc

\* lines 157-185: the blocks appended for the headings and paragraphs
body_blocks(page) ==
    LET root == main_content(page.nodes)
        tags == IF root = 0 THEN <<>> ELSE find_all(page.nodes, root)
    IN  Flatten([i \in 1..Len(tags) |->
                    blocks_of(page.nodes[tags[i]].tag,
                              strip(node_text(page.nodes, tags[i])))])

\* the list content at line 187
scrape_content(u, page) == <<title_block(u, page)>> \o body_blocks(page)

Sentinel == Chars("No content could be extracted from this webpage.")

\* a scrape that raised
ScrapeRaised(what) == [raised |-> what, content |-> <<>>, text |-> <<>>]

\* scrape_webpage(url) when the web answers resp: the text returned, with the
\* list it was joined from, or the exception raised
scrape_webpage(u, resp) ==
    IF ~Fetchable(FetchUrl(u)) \/ resp.status # "ok"
    THEN ScrapeRaised("Failed to fetch the webpage")
    ELSE LET content == scrape_content(u, resp.page)
         IN  [raised |-> "", content |-> content,
              text |-> IF content # <<>> THEN join(Chars("\n\n"), content) ELSE Sentinel]

NotScraped == ScrapeRaised("not called")

\* one element of a page
El(tag, parent, cls, text) ==
    [tag |-> tag, parent |-> parent, cls |-> Chars(cls), text |-> Chars(text)]

SixWords == "one two three four five six"

\* <body><nav>..</nav><footer>..</footer></body>
BodyNavFooter ==
    << El("body", 0, "", ""), El("nav", 1, "", "Home About Contact and many more links"),
       El("p", 2, "", "A paragraph of six words inside nav"),
       El("footer", 1, "", "Copyright Example Corporation all rights reserved here") >>

\* <body><article><h1>Title</h1><p>one two three four five six</p></article></body>
BodyArticle ==
    << El("body", 0, "", ""), El("article", 1, "", ""), El("h1", 2, "", "Title"),
       El("p", 2, "", SixWords) >>

BodyMain ==
    << El("body", 0, "", ""), El("h1", 1, "", "Heading outside the main element"),
       El("main", 1, "", ""), El("h2", 3, "", "Breaking News Today"),
       El("p", 3, "", "This paragraph has more than five words"),
       El("p", 3, "", "Too short text"),
       El("h3", 3, "", "Subscribe to our newsletter"),
       El("h4", 3, "", "Menu of the day"),
       El("h3", 3, "", "Contact us"),
       El("h5", 3, "", "A heading of the fifth level") >>

BodyDiv ==
    << El("body", 0, "", ""), El("header", 1, "", ""), El("h1", 2, "", "Site header heading"),
       El("div", 1, "Main-Content wide", ""), El("h4", 4, "", "A long enough heading"),
       El("p", 4, "", "Cookie policy applies to all of our readers"),
       El("div", 4, "", ""), El("p", 7, "", "Nested paragraph with six whole words"),
       El("script", 4, "", "var x = 'a script of more than five words';") >>

\* markup without a <body>
Fragment ==
    << El("h1", 0, "", "Heading without a body"),
       El("p", 0, "", "A paragraph of six words without body") >>

BodyPlain ==
    << El("body", 0, "", ""), El("h2", 1, "", "Footer notes and more"),
       El("h1", 1, "", "  FOOTBALL results  "), El("p", 1, "", "short"),
       El("div", 1, "sidebar", "Advertisement: buy more of this right now") >>

BodyEmpty == << El("body", 0, "", "") >>

Bodies == {BodyNavFooter, BodyArticle, BodyMain, BodyDiv, Fragment, BodyPlain, BodyEmpty}

Titles == { <<>>, <<Chars("")>>, <<Chars("My Page")>>, <<Chars("  News \n")>> }

Pages == [title : Titles, nodes : Bodies]

\* a request fails (no connection, a timeout, an HTTP error status) or is
\* answered with a page
Responses == {[status |-> "error", page |-> [title |-> <<>>, nodes |-> <<>>]]}
                \cup {[status |-> "ok", page |-> pg] : pg \in Pages}

Urls ==
    { Chars("example.com"), Chars("https://example.com"), Chars("http://news.site/a?b"),
      Chars("HTTPS://Example.com/x"), Chars("example.com:8080/a"), Chars("ftp://example.com") }

\* the variables of the scraper, at rest
ScrapeIdle ==
    /\ url = <<>>
    /\ response = CHOOSE r \in Responses : r.status = "error"
    /\ scraped = NotScraped

(***************************************************************************)
(* The module-level script (src/app.py:235-385), which Streamlit runs from *)
(* top to bottom after every interaction with a widget.                    *)
(***************************************************************************)
\* the options of the selectbox of line 238, the first one the default
InputTypes == {"Enter Text", "Upload File", "Scrape Webpage"}

\* the widget values of a new session: the first option, an empty text area,
\* no file, an empty URL field.  uploaded_file is a sequence holding the
\* decoded content of the file, empty when there is no file.
DefaultWidgets ==
    [input_type |-> "Enter Text", user_text |-> <<>>, uploaded_file |-> <<>>,
     web_url |-> <<>>]

\* Line 298, reached when the method is Scrape Webpage, the URL field is not
\* empty and this run was triggered by the Scrape button: st.button returns
\* True in the run its click triggers, and False in every other run.
ScrapeSection(w, clicked, resp) ==
    IF w.input_type = "Scrape Webpage" /\ w.web_url # <<>> /\ clicked = "scrape"
    THEN scrape_webpage(w.web_url, resp)
    ELSE NotScraped

\* Lines 255-308: corpus starts empty in every run and is filled from the
\* widget of the chosen method; sc is what ScrapeSection gave.  The text area
\* and the file uploader keep their value from run to run (an uploaded file
\* is handed to each run as a fresh buffer of its bytes, here UTF-8 text).
InputSection(w, sc) ==
    IF w.input_type = "Enter Text"
    THEN (IF w.user_text # <<>> THEN <<w.user_text>> ELSE <<>>)
    ELSE IF w.input_type = "Upload File"
    THEN (IF w.uploaded_file # <<>> THEN <<w.uploaded_file[1]>> ELSE <<>>)
    ELSE (IF sc.raised = "" THEN <<sc.text>> ELSE <<>>)

\* Lines 310-334: the process button is rendered only under "if corpus:", and
\* returns True only in a run that its click triggered and that renders it.
ProcessingSection(w, clicked, sc, corpus_, build, data) ==
    [corpus |-> corpus_,
     scraped |-> sc,
     shown |-> (IF w.input_type = "Scrape Webpage" THEN {"scrape"} ELSE {})
                  \cup (IF corpus_ # <<>> THEN {"process"} ELSE {}),
     result |-> IF corpus_ # <<>> /\ clicked = "process"
                THEN preprocess_text(corpus_, build, data)
                ELSE NoResult]

\* the sections after the scrape
AfterScrape(w, clicked, sc, build, data) ==
    ProcessingSection(w, clicked, sc, InputSection(w, sc), build, data)

\* One run of the script on the widget values w.  clicked names the button
\* whose click triggered the run ("" when another widget did); resp is what
\* the web answers if the run scrapes.
Script(w, clicked, resp, build, data) ==
    AfterScrape(w, clicked, ScrapeSection(w, clicked, resp), build, data)

\* the variables of the session, at rest
AppIdle ==
    /\ widgets = DefaultWidgets
    /\ shown = {}
    /\ event = "start"

\* the variables of the pipeline, at rest
PipeIdle ==
    /\ nltk_build = "punkt_tab"
    /\ nltk_data = downloads
    /\ corpus = <<>>
    /\ result = NoResult

\* the variables of clean_text, at rest
CleanIdle ==
    /\ doc = <<>>
    /\ cleaned = <<>>
    /\ recleaned = <<>>

InitClean ==
    /\ pc = "clean_input"
    /\ doc \in CleanDocs
    /\ cleaned = <<>>
    /\ recleaned = <<>>
    /\ PipeIdle
    /\ ScrapeIdle
    /\ AppIdle

Clean ==
    /\ pc = "clean_input"
    /\ cleaned' = clean_text(doc)
    /\ pc' = "clean_done"
    /\ UNCHANGED <<doc, recleaned, pipeVars, scrapeVars, appVars>>

CleanAgain ==
    /\ pc = "clean_done"
    /\ recleaned' = clean_text(cleaned)
    /\ pc' = "clean_twice"
    /\ UNCHANGED <<doc, cleaned, pipeVars, scrapeVars, appVars>>

NextClean == Clean \/ CleanAgain

SpecClean == InitClean /\ [][NextClean]_vars

(***************************************************************************)
(* The process starts, download_nltk_data runs once, then preprocess_text  *)
(* is called on a corpus.                                                  *)
(***************************************************************************)
PipelineDocs ==
    { <<>>, Chars("The cat"), Chars("to be or not"), Chars("I cannot go see an ox: the men's feet 2day"),
      ScenarioDoc, MarkupDoc }

Corpora == UNION {[1..n -> PipelineDocs] : n \in 0..MaxDocs}

InitPipeline ==
    /\ pc = "startup"
    /\ nltk_build \in NltkBuilds
    /\ nltk_data \in SUBSET downloads
    /\ corpus \in Corpora
    /\ result = NoResult
    /\ CleanIdle
    /\ ScrapeIdle
    /\ AppIdle

\* download_nltk_data (src/app.py:15-36): each package that nltk.data.find
\* does not find is downloaded; a download that fails is passed over, and the
\* package stays missing.
DownloadNltkData ==
    /\ pc = "startup"
    /\ \E fetched \in SUBSET (downloads \ nltk_data) :
          nltk_data' = nltk_data \cup fetched
    /\ pc' = "ready"
    /\ UNCHANGED <<nltk_build, corpus, result, cleanVars, scrapeVars, appVars>>

\* preprocess_text(corpus) is called
Preprocess ==
    /\ pc = "ready"
    /\ result' = preprocess_text(corpus, nltk_build, nltk_data)
    /\ pc' = "done"
    /\ UNCHANGED <<nltk_build, nltk_data, corpus, cleanVars, scrapeVars, appVars>>

NextPipeline == DownloadNltkData \/ Preprocess

SpecPipeline == InitPipeline /\ [][NextPipeline]_vars

(***************************************************************************)
(* scrape_webpage is called on a URL, and the web answers.                 *)
(***************************************************************************)
InitScrape ==
    /\ pc = "scrape_input"
    /\ url \in Urls
    /\ response \in Responses
    /\ scraped = NotScraped
    /\ CleanIdle
    /\ PipeIdle
    /\ AppIdle

Scrape ==
    /\ pc = "scrape_input"
    /\ scraped' = scrape_webpage(url, response)
    /\ pc' = "scrape_done"
    /\ UNCHANGED <<url, response, cleanVars, pipeVars, appVars>>

NextScrape == Scrape

SpecScrape == InitScrape /\ [][NextScrape]_vars

(***************************************************************************)
(* A session of the application: the process starts and downloads the NLTK *)
(* data, then every interaction re-runs the script.                        *)
(***************************************************************************)
AppTexts == { <<>>, Chars("The cat"), ScenarioDoc }

AppFiles == { Chars(""), Chars("to be or not") }

AppUrls == { <<>>, Chars("example.com"), Chars("https://example.com") }

AppResponses ==
    { [status |-> "error", page |-> [title |-> <<>>, nodes |-> <<>>]],
      [status |-> "ok", page |-> [title |-> <<>>, nodes |-> BodyArticle]],
      [status |-> "ok", page |-> [title |-> <<Chars("My Page")>>, nodes |-> BodyMain]] }

Init ==
    /\ pc = "startup"
    /\ nltk_build \in NltkBuilds
    /\ nltk_data \in SUBSET downloads
    /\ corpus = <<>>
    /\ result = NoResult
    /\ CleanIdle
    /\ ScrapeIdle
    /\ AppIdle

\* the script runs on the widget values w after the interaction how
Rerun(w, how, clicked, resp) ==
    /\ pc = "ready"
    /\ \E run \in {Script(w, clicked, resp, nltk_build, nltk_data)} :
          /\ corpus' = run.corpus
          /\ scraped' = run.scraped
          /\ shown' = run.shown
          /\ result' = run.result
    /\ widgets' = w
    /\ event' = how
    /\ response' = resp
    /\ UNCHANGED <<pc, nltk_build, nltk_data, url, cleanVars>>

\* Another input method is chosen in the selectbox.  Streamlit drops the
\* value of a widget that a run does not render, so the widgets of the other
\* methods start from their defaults when they come back.
SelectInput ==
    \E t \in InputTypes \ {widgets.input_type} :
        Rerun([DefaultWidgets EXCEPT !.input_type = t], "select", "", response)

\* the text area is edited
EnterText ==
    /\ widgets.input_type = "Enter Text"
    /\ \E t \in AppTexts : Rerun([widgets EXCEPT !.user_text = t], "text", "", response)

\* a file is uploaded, or the uploaded file is removed
UploadFile ==
    /\ widgets.input_type = "Upload File"
    /\ \E f \in {<<>>} \cup {<<c>> : c \in AppFiles} :
          Rerun([widgets EXCEPT !.uploaded_file = f], "file", "", response)

\* the URL field is edited
EnterUrl ==
    /\ widgets.input_type = "Scrape Webpage"
    /\ \E u \in AppUrls : Rerun([widgets EXCEPT !.web_url = u], "url", "", response)

\* the Scrape button is clicked
PressScrape ==
    /\ "scrape" \in shown
    /\ \E resp \in AppResponses : Rerun(widgets, "scrape", "scrape", resp)

\* the Start NLP Processing button is clicked
PressProcess ==
    /\ "process" \in shown
    /\ Rerun(widgets, "process", "process", response)

Next ==
    \/ DownloadNltkData
    \/ SelectInput
    \/ EnterText
    \/ UploadFile
    \/ EnterUrl
    \/ PressScrape
    \/ PressProcess

Spec == Init /\ [][Next]_vars

(***************************************************************************)
(* Properties.                                                             *)
(***************************************************************************)
\* a is b with some of its elements deleted
RECURSIVE IsSubseq(_, _)
IsSubseq(a, b) ==
    IF a = <<>> THEN TRUE
    ELSE IF b = <<>> THEN FALSE
    ELSE IF Head(a) = Head(b) THEN IsSubseq(Tail(a), Tail(b))
    ELSE IsSubseq(a, Tail(b))

\* every package the installed NLTK loads is present
DataPresent ==
    TokenizerData(nltk_build) \cup LemmatizerData(nltk_build) \cup {"stopwords"}
        \subseteq nltk_data

\* "#" * level + " " + text
HashBlock(level, text) == [i \in 1..level |-> "#"] \o <<" ">> \o text

\* C1: for every input corpus, empty documents included, preprocess_text
\* returns five corpora (cleaned, tokenized, filtered, stemmed, lemmatized),
\* each with as many entries as the corpus, and entry i of each is derived
\* from document i.  With the NLTK data present the call returns; a call that
\* returns gives the five aligned corpora.
C1_IndexAligned ==
    pc = "done" =>
        /\ DataPresent => result.raised = ""
        /\ result.raised = "" =>
            /\ Len(result.cleaned) = Len(corpus)
            /\ Len(result.tokenized) = Len(corpus)
            /\ Len(result.filtered) = Len(corpus)
            /\ Len(result.stemmed) = Len(corpus)
            /\ Len(result.lemmatized) = Len(corpus)
            /\ \A i \in 1..Len(corpus) :
                /\ result.cleaned[i] = clean_text(corpus[i])
                /\ result.tokenized[i] = word_tokenize(clean_text(corpus[i]))
                /\ IsSubseq(result.filtered[i], result.tokenized[i])
                /\ Len(result.stemmed[i]) = Len(result.filtered[i])
                /\ Len(result.lemmatized[i]) = Len(result.filtered[i])
                /\ \A k \in 1..Len(result.filtered[i]) :
                    /\ result.stemmed[i][k] = stem(result.filtered[i][k])
                    /\ result.lemmatized[i][k] = lemmatize(result.filtered[i][k])

\* C1's case: a corpus of two documents, the first the empty string, processed
C1_Witness ==
    /\ pc = "done"
    /\ result.raised = ""
    /\ Len(corpus) = 2
    /\ corpus[1] = <<>>
    /\ corpus[2] = ScenarioDoc
    /\ Len(result.lemmatized) = 2

\* C2, as the specification states it: clean_text(d) is no longer than d and
\* holds no digit, no punctuation character and no two consecutive spaces
C2_Original ==
    pc = "clean_done" =>
        /\ Len(cleaned) <= Len(doc)
        /\ Range(cleaned) \cap DecimalDigits = {}
        /\ Range(cleaned) \cap punctuation = {}
        /\ ~Contains(cleaned, <<" ", " ">>)

\* C2, amended: clean_text(d) is no longer than d.lower(), hence no longer
\* than d whenever lowercasing does not lengthen d; it holds no decimal digit,
\* no punctuation character and no two consecutive spaces
C2_Amended ==
    pc = "clean_done" =>
        /\ Len(cleaned) <= Len(lower(doc))
        /\ Len(lower(doc)) = Len(doc) => Len(cleaned) <= Len(doc)
        /\ Range(cleaned) \cap DecimalDigits = {}
        /\ Range(cleaned) \cap punctuation = {}
        /\ ~Contains(cleaned, <<" ", " ">>)

\* C2's case: the scenario sentence, with its digits and its "!", cleaned
C2_Witness ==
    /\ pc = "clean_done"
    /\ doc = ScenarioDoc
    /\ cleaned = Chars("the quick brown foxes are running and jumping over lazy dogs")

\* C3: clean_text is idempotent, clean_text(clean_text(d)) = clean_text(d)
C3_Idempotent == pc = "clean_twice" => recleaned = cleaned

\* C3's case: a document that cleaning changes, cleaned twice
C3_Witness ==
    /\ pc = "clean_twice"
    /\ "U+0130" \in Range(doc)
    /\ "1" \in Range(doc)
    /\ cleaned # <<>>
    /\ cleaned # doc

\* C4: filtered[i] is tokenized[i] with tokens deleted, in the same order; no
\* token of it is a stop word or has at most 2 characters; and every token of
\* tokenized[i] that passes both conditions is kept
C4_Filter ==
    pc = "done" /\ result.raised = "" =>
        \A i \in 1..Len(corpus) :
            LET toks == result.tokenized[i]
                kept == result.filtered[i]
            IN  /\ IsSubseq(kept, toks)
                /\ \A k \in 1..Len(kept) : kept[k] \notin stop_words /\ Len(kept[k]) > 2
                /\ Len(kept) = Cardinality({k \in 1..Len(toks) :
                                               toks[k] \notin stop_words /\ Len(toks[k]) > 2})

\* C4's case: a document with a stop word of three letters, a two-letter
\* token that is no stop word, and a token that is kept
C4_Witness ==
    /\ pc = "done"
    /\ result.raised = ""
    /\ \E i \in 1..Len(corpus) :
        /\ Chars("the") \in Range(result.tokenized[i])
        /\ Chars("ox") \in Range(result.tokenized[i])
        /\ Chars("feet") \in Range(result.filtered[i])
        /\ Len(result.filtered[i]) < Len(result.tokenized[i])

\* C5: clean_text strips the markup tags of a document and returns its text
\* content only, so that cleaning '<b>hi</b>' yields 'hi'
C5_TagsStripped ==
    pc = "clean_done" =>
        /\ doc = MarkupDoc => cleaned = Chars("hi")
        /\ cleaned = clean_text(get_text(doc))

\* C6: when no heading or paragraph block survives the filtering,
\* scrape_webpage returns the sentinel text
C6_Sentinel ==
    pc = "scrape_done" /\ scraped.raised = "" /\ body_blocks(response.page) = <<>>
        => scraped.text = Sentinel

\* the headings of the content root of the fetched page, after the decompose
ContentHeadings ==
    LET nodes == response.page.nodes
        root == main_content(nodes)
    IN  IF root = 0 THEN {}
        ELSE {j \in 1..Len(nodes) :
                 /\ j # root
                 /\ ~Decomposed(nodes, j)
                 /\ InSubtree(nodes, j, root)
                 /\ nodes[j].tag \in Headings}

\* the heading j holds no boilerplate marker and starts with none of menu,
\* navigation, footer
PlainHeading(j) ==
    LET text == strip(node_text(response.page.nodes, j))
    IN  /\ ~\E w \in BoilerplateMarkers : Contains(lower(text), w)
        /\ ~\E w \in HeadingBlacklist : StartsWith(lower(text), w)

\* the heading block that heading j is emitted as
HeadingBlockOf(j) ==
    HashBlock(HeadingLevel(response.page.nodes[j].tag),
              strip(node_text(response.page.nodes, j)))

\* C7, as the specification states it: for the article page the result holds a
\* level-1 heading block for 'Title' and a paragraph block for the sentence,
\* and every heading of the content root without marker and blacklisted start
\* is emitted as a heading block of its level
C7_Original ==
    pc = "scrape_done" /\ scraped.raised = "" =>
        /\ response.page.nodes = BodyArticle =>
            /\ HashBlock(1, Chars("Title")) \in Range(Tail(scraped.content))
            /\ Chars(SixWords) \in Range(Tail(scraped.content))
        /\ \A j \in ContentHeadings :
            PlainHeading(j) => HeadingBlockOf(j) \in Range(Tail(scraped.content))

\* C7, amended: for the article page the result holds the paragraph block and
\* no heading block for 'Title', which is shorter than 10 characters; a
\* heading of the content root of at least 10 characters, without marker and
\* blacklisted start, is emitted as a heading block of its level
C7_Amended ==
    pc = "scrape_done" /\ scraped.raised = "" =>
        /\ response.page.nodes = BodyArticle =>
            /\ HashBlock(1, Chars("Title")) \notin Range(Tail(scraped.content))
            /\ Chars(SixWords) \in Range(Tail(scraped.content))
        /\ \A j \in ContentHeadings :
            /\ PlainHeading(j) /\ Len(strip(node_text(response.page.nodes, j))) >= 10
                  => HeadingBlockOf(j) \in Range(Tail(scraped.content))
            /\ Len(strip(node_text(response.page.nodes, j))) < 10
                  => HeadingBlockOf(j) \notin Range(Tail(scraped.content))

\* C7's case: a page scraped whose content root holds a heading of 19
\* characters and one of exactly 10, both emitted at their levels
C7_Witness ==
    /\ pc = "scrape_done"
    /\ scraped.raised = ""
    /\ response.page.nodes = BodyMain
    /\ Chars("## Breaking News Today") \in Range(scraped.content)
    /\ Chars("### Contact us") \in Range(scraped.content)

\* C8: with a linguistic resource missing after the start-up download,
\* preprocess_text still runs to completion and returns the five corpora
C8_DegradesGracefully == pc = "done" => result.raised = ""

\* C9: the first block of an extraction result is "# " and the page's <title>
\* text when there is a non-empty <title>, otherwise "# Scraped Content from "
\* and the host of the fetched URL
C9_TitleFirst ==
    pc = "scrape_done" /\ scraped.raised = "" =>
        scraped.content[1] =
            Chars("# ") \o
                (IF response.page.title # <<>> /\ strip(response.page.title[1]) # <<>>
                 THEN strip(response.page.title[1])
                 ELSE Chars("Scraped Content from ") \o urlparse(FetchUrl(url)).netloc)

\* C10: a press of the Start NLP Processing button runs the pipeline on the
\* text the source has produced: the run it triggers has the corpus that the
\* run before it had, and calls preprocess_text on it
C10_ProcessRuns ==
    [][event' = "process" => corpus' = corpus /\ result'.raised # "not called"]_vars

=============================================================================
